---- MODULE Spec2Model ----
(***************************************************************************)
(* A model of the session manager of lwlwilliam/session: the Manager of    *)
(* src/session.go (SessionStart, SessionDestroy, GC, sessionID), the       *)
(* request handler and start-up code of src/demo/main.go, and the          *)
(* Provider/Session contract the Manager programs against.                 *)
(*                                                                         *)
(* A Go string is a sequence of one-character strings, so that encoding    *)
(* and escaping are computed character by character as the library does.   *)
(***************************************************************************)
EXTENDS Integers, Sequences, FiniteSets, Bags, TLC

(***************************************************************************)
(* Bounds of the model.                                                    *)
(***************************************************************************)
\* The random source yields one of MaxSeed distinct blocks (or fails).
MaxSeed == 2
\* Number of concurrent request workers of the HTTP server.
NumWorkers == 2
\* Number of requests the server receives in one run.
MaxRequests == 2
\* Number of requests that arrive in a run checked for liveness.
LiveRequests == 1
\* Number of times GC() is called from outside the Manager.
MaxGCStarts == 1
\* The maxLifeTime (seconds) handed to NewManager.
LifeTime == 1

(***************************************************************************)
(* Strings, bytes and the two text conversions the Manager uses.           *)
(***************************************************************************)
\* The printable ASCII characters, code 32 (space) to 126 (~), in order
\* (code 96 is written "grave").
Ascii ==
  <<
     " ", "!", "\"", "#", "$", "%", "&", "'", "(", ")", "*", "+", ",", "-", ".", "/",
     "0", "1", "2", "3", "4", "5", "6", "7", "8", "9", ":", ";", "<", "=", ">", "?",
     "@", "A", "B", "C", "D", "E", "F", "G", "H", "I", "J", "K", "L", "M", "N", "O",
     "P", "Q", "R", "S", "T", "U", "V", "W", "X", "Y", "Z", "[", "\\", "]", "^", "_",
     "grave", "a", "b", "c", "d", "e", "f", "g", "h", "i", "j", "k", "l", "m", "n", "o",
     "p", "q", "r", "s", "t", "u", "v", "w", "x", "y", "z", "{", "|", "}", "~" >>

\* The byte value of a printable character.
CharCode(c) == 31 + (CHOOSE i \in 1..Len(Ascii) : Ascii[i] = c)

\* The character of a byte value; a byte outside printable ASCII is kept as
\* a token naming its value.
CharOfCode(n) == IF n \in 32..126 THEN Ascii[n - 31] ELSE ToString(n)

\* encoding/base64: the URL-safe alphabet of base64.URLEncoding.
encodeURL ==
  <<
     "A", "B", "C", "D", "E", "F", "G", "H", "I", "J", "K", "L", "M", "N", "O", "P",
     "Q", "R", "S", "T", "U", "V", "W", "X", "Y", "Z", "a", "b", "c", "d", "e", "f",
     "g", "h", "i", "j", "k", "l", "m", "n", "o", "p", "q", "r", "s", "t", "u", "v",
     "w", "x", "y", "z", "0", "1", "2", "3", "4", "5", "6", "7", "8", "9", "-", "_" >>

\* base64.StdPadding
PadChar == "="

\* base64 Encoding.EncodeToString: three bytes become four characters; a
\* final group of one or two bytes is padded with PadChar to four.
RECURSIVE EncodeToString(_)
EncodeToString(b) ==
  IF Len(b) = 0 THEN << >>
  ELSE IF Len(b) = 1 THEN
    LET val == b[1] * 65536
    IN << encodeURL[((val \div 262144) % 64) + 1],
          encodeURL[((val \div 4096) % 64) + 1], PadChar, PadChar >>
  ELSE IF Len(b) = 2 THEN
    LET val == b[1] * 65536 + b[2] * 256
    IN << encodeURL[((val \div 262144) % 64) + 1],
          encodeURL[((val \div 4096) % 64) + 1],
          encodeURL[((val \div 64) % 64) + 1], PadChar >>
  ELSE
    LET val == b[1] * 65536 + b[2] * 256 + b[3]
    IN << encodeURL[((val \div 262144) % 64) + 1],
          encodeURL[((val \div 4096) % 64) + 1],
          encodeURL[((val \div 64) % 64) + 1],
          encodeURL[(val % 64) + 1] >>
       \o EncodeToString(SubSeq(b, 4, Len(b)))

\* net/url: the hexadecimal digits escape writes.
upperhex ==
  << "0", "1", "2", "3", "4", "5", "6", "7",
     "8", "9", "A", "B", "C", "D", "E", "F" >>

Digits == { "0", "1", "2", "3", "4", "5", "6", "7", "8", "9" }
UpperLetters == { Ascii[i] : i \in 34..59 }
LowerLetters == { Ascii[i] : i \in 66..91 }

\* net/url shouldEscape in mode encodeQueryComponent: letters, digits and
\* - _ . ~ are kept, every other byte is escaped.
shouldEscape(c) ==
  ~ (c \in Digits \cup UpperLetters \cup LowerLetters \cup { "-", "_", ".", "~" })

\* net/url QueryEscape: a space becomes +, an escaped byte becomes %XX.
RECURSIVE QueryEscape(_)
QueryEscape(s) ==
  IF Len(s) = 0 THEN << >>
  ELSE LET c == s[1]
           out == IF ~ shouldEscape(c) THEN << c >>
                  ELSE IF c = " " THEN << "+" >>
                  ELSE << "%", upperhex[(CharCode(c) \div 16) + 1],
                               upperhex[(CharCode(c) % 16) + 1] >>
       IN out \o QueryEscape(Tail(s))

\* net/url ishex and unhex.
ishex(c) == c \in Digits \cup { "a", "b", "c", "d", "e", "f" }
                         \cup { "A", "B", "C", "D", "E", "F" }

unhex(c) ==
  IF c \in Digits THEN CharCode(c) - 48
  ELSE IF c \in { "a", "b", "c", "d", "e", "f" } THEN CharCode(c) - 97 + 10
  ELSE CharCode(c) - 65 + 10

\* The first pass of net/url unescape: a % not followed by two hexadecimal
\* digits is an EscapeError.
RECURSIVE validEscapes(_)
validEscapes(s) ==
  IF Len(s) = 0 THEN TRUE
  ELSE IF s[1] = "%" THEN
    /\ Len(s) >= 3
    /\ ishex(s[2])
    /\ ishex(s[3])
    /\ validEscapes(SubSeq(s, 4, Len(s)))
  ELSE validEscapes(Tail(s))

\* The second pass of net/url unescape: %XX becomes the byte, + a space.
RECURSIVE unescapeBytes(_)
unescapeBytes(s) ==
  IF Len(s) = 0 THEN << >>
  ELSE IF s[1] = "%" THEN
    << CharOfCode(unhex(s[2]) * 16 + unhex(s[3])) >>
      \o unescapeBytes(SubSeq(s, 4, Len(s)))
  ELSE IF s[1] = "+" THEN << " " >> \o unescapeBytes(Tail(s))
  ELSE << s[1] >> \o unescapeBytes(Tail(s))

\* net/url QueryUnescape: the unescaped string, or "" and an error.
QueryUnescape(s) ==
  IF validEscapes(s) THEN [str |-> unescapeBytes(s), err |-> FALSE]
  ELSE [str |-> << >>, err |-> TRUE]

(***************************************************************************)
(* Constants of the program and of the libraries it calls.                 *)
(***************************************************************************)
\* sessionID: b := make([]byte, 32)
IDBytes == 32

\* time.Second, in units of time.Duration (nanoseconds).
Second == 1000 * 1000 * 1000

\* The provider name and cookie name the demo constructs its Manager with.
ProviderName == "memory"
CookieName == "gosessionid"

\* The key the login handler stores under, and a user name its form
\* validation accepts (three letters a-z).
UsernameKey == "username"
ValidUsername == "abc"

Min(a, b) == IF a < b THEN a ELSE b

(***************************************************************************)
(* The random source.                                                      *)
(***************************************************************************)
Seeds == 0..(MaxSeed - 1)

\* The blocks of IDBytes bytes crypto/rand.Read may fill b with.
Block(s) == [i \in 1..IDBytes |-> (s * 101 + i * 7) % 256]

\* What rand.Read(b) may do: fill b, or fail.
RandRead ==
  { [err |-> FALSE, b |-> Block(s)] : s \in Seeds }
    \cup { [err |-> TRUE, b |-> [i \in 1..IDBytes |-> 0]] }

\* sessionID encoding the buffer as it was before rand.Read filled it.
sessionID_Unfilled(r) ==
  IF r.err THEN << >> ELSE EncodeToString([i \in 1..IDBytes |-> 0])

\* Manager.sessionID: "" when the random source fails, else the URL-safe
\* base64 text of the block.
sessionID(r) == IF r.err THEN << >> ELSE EncodeToString(r.b)

(***************************************************************************)
(* Requests.                                                               *)
(***************************************************************************)
Workers == 1..NumWorkers

\* A cookie value no escape produces: % is not followed by two hex digits.
MalformedValue == << "%", "z", "z" >>

\* What http.Request.Cookie(name) returns for a request: the named cookie,
\* or ErrNoCookie. sids is not part of the request: it records the
\* identifiers whose cookie, sent by an earlier response, carried this value.
NoCookie == [err |-> TRUE, Value |-> << >>, sids |-> {}]
CookieOf(v, ids) == [err |-> FALSE, Value |-> v, sids |-> ids]

(***************************************************************************)
(* The Provider and Session contract, memory backend.                      *)
(***************************************************************************)
\* A Session value: nil, or a reference to the store held under sid.
NilSession == [nil |-> TRUE, sid |-> << >>]
SessionRef(id) == [nil |-> FALSE, sid |-> id]

\* A new store: just accessed, no values.
NoValues == [k \in {} |-> ""]
NewStore == [age |-> 0, values |-> NoValues]

\* A store is expired when now - lastAccessed > maxLifetime; age is
\* now - lastAccessed in seconds, counted up to maxLifetime + 1.
Expired(st, maxLifeTime) == st.age > maxLifeTime

Live(ss, id, maxLifeTime) ==
  id \in DOMAIN ss /\ ~ Expired(ss[id], maxLifeTime)

Put(ss, id, st) ==
  [k \in DOMAIN ss \cup {id} |-> IF k = id THEN st ELSE ss[k]]

Remove(ss, ids) == [k \in DOMAIN ss \ ids |-> ss[k]]

\* Provider.SessionInit: a new empty store under sid; fails when sid is held
\* by a store that has not expired.
ProviderInit(ss, id, maxLifeTime) ==
  IF Live(ss, id, maxLifeTime)
  THEN [sessions |-> ss, session |-> NilSession, err |-> TRUE]
  ELSE [sessions |-> Put(ss, id, NewStore), session |-> SessionRef(id),
        err |-> FALSE]

\* Provider.SessionRead: the store under sid with lastAccessed refreshed, or
\* NotFound when it is absent or expired (the registry is left as it is).
ProviderRead(ss, id, maxLifeTime) ==
  IF Live(ss, id, maxLifeTime)
  THEN [sessions |-> [ss EXCEPT ![id].age = 0], session |-> SessionRef(id),
        err |-> FALSE]
  ELSE [sessions |-> ss, session |-> NilSession, err |-> TRUE]

\* Provider.SessionDestroy: removes the store under sid; NotFound when absent.
ProviderDestroy(ss, id) ==
  [sessions |-> Remove(ss, {id}), err |-> id \notin DOMAIN ss]

\* Provider.SessionGC: removes every store whose lastAccessed is older than
\* now - maxLifeTime. (The memory backend walks its recency list from the
\* least recently used end and stops at the first store that has not
\* expired, which removes the same stores.)
ProviderGC(ss, maxLifeTime) ==
  Remove(ss, { id \in DOMAIN ss : Expired(ss[id], maxLifeTime) })

(***************************************************************************)
(* The registry and the Manager.                                           *)
(***************************************************************************)
\* Register without the duplicate check: a registered name is rebound.
Register_Overwrite(registry, name, provider) ==
  IF provider = "nil"
  THEN [providers |-> registry, panic |-> TRUE]
  ELSE [providers |-> [n \in DOMAIN registry \cup {name} |->
                         IF n = name THEN provider ELSE registry[n]],
        panic |-> FALSE]

\* Register: panics on a nil provider or a name already registered.
Register(registry, name, provider) ==
  IF provider = "nil" \/ name \in DOMAIN registry
  THEN [providers |-> registry, panic |-> TRUE]
  ELSE [providers |-> [n \in DOMAIN registry \cup {name} |->
                         IF n = name THEN provider ELSE registry[n]],
        panic |-> FALSE]

NilManager == [nil |-> TRUE, provider |-> "nil", cookieName |-> "",
               maxLifeTime |-> 0]

\* NewManager without the lookup check: an unknown name gives a Manager
\* bound to the nil Provider and no error.
NewManager_Unchecked(registry, provideName, cookieName, maxLifeTime) ==
  [manager |-> [nil |-> FALSE,
                provider |-> IF provideName \in DOMAIN registry
                             THEN registry[provideName] ELSE "nil",
                cookieName |-> cookieName, maxLifeTime |-> maxLifeTime],
   err |-> FALSE]

\* NewManager: the Manager bound to the named provider, or an error.
NewManager(registry, provideName, cookieName, maxLifeTime) ==
  IF provideName \notin DOMAIN registry
  THEN [manager |-> NilManager, err |-> TRUE]
  ELSE [manager |-> [nil |-> FALSE, provider |-> registry[provideName],
                     cookieName |-> cookieName, maxLifeTime |-> maxLifeTime],
        err |-> FALSE]

\* The registry with no provider registered.
EmptyRegistry == [n \in {} |-> "nil"]

\* Session.Set through a handle: writes the store the handle refers to and
\* refreshes lastAccessed (a store no longer held by the provider is
\* written without effect on the provider).
StoreSet(ss, h, key, val) ==
  IF h.sid \in DOMAIN ss
  THEN [ss EXCEPT ![h.sid] =
          [age |-> 0,
           values |-> [k \in DOMAIN @.values \cup {key} |->
                         IF k = key THEN val ELSE @.values[k]]]]
  ELSE ss

\* Session.Get through a handle: the value under key, or absent (nil).
StoreGet(ss, h, key) ==
  IF h.sid \in DOMAIN ss /\ key \in DOMAIN ss[h.sid].values
  THEN ss[h.sid].values[key]
  ELSE "absent"

\* Session.Get refreshes lastAccessed as every access does.
StoreTouch(ss, h) ==
  IF h.sid \in DOMAIN ss THEN [ss EXCEPT ![h.sid].age = 0] ELSE ss

(***************************************************************************)
(* State.                                                                  *)
(***************************************************************************)
VARIABLES
  providers,  \* the registry: provider name -> provider
  manager,    \* the Manager: provider, cookieName, maxLifeTime
  boot,       \* the last Register or NewManager call and how it ended
  lock,       \* manager.lock: who holds it
  sessions,   \* the stores the memory provider holds: sid -> store
  pc,         \* where each request worker is
  req,        \* the cookie the worker's request carries
  sid,        \* SessionStart's local sid
  session,    \* the Session SessionStart returned (or is about to)
  resp,       \* the cookies set on the worker's response
  calls,      \* the Provider calls the worker's Manager call has made
  got,        \* what the handler's Get returned
  rnd,        \* what rand.Read did in the worker's sessionID call
  jar,        \* the session cookies clients have been sent: [sid, Value]
  gc,         \* how many goroutines are at each step of GC
  timers,     \* the pending timers: a bag of [delay, elapsed] in nanoseconds
  gcStarts,   \* how many times GC() was called from outside
  served      \* how many requests have arrived

vars == << providers, manager, boot, lock, sessions, pc, req, sid, session, resp,
           calls, got, rnd, jar, gc, timers, gcStarts, served >>

workerVars == << pc, req, sid, session, resp, calls, got, rnd, jar >>

\* The cookies a client may send under the Manager's cookie name: none, an
\* empty value, a malformed value, or a value a response has carried.
IssuedFor(v) == { c.sid : c \in { x \in jar : x.Value = v } }

RequestCookies ==
  { NoCookie, CookieOf(<< >>, IssuedFor(<< >>)),
    CookieOf(MalformedValue, IssuedFor(MalformedValue)) }
    \cup { CookieOf(c.Value, IssuedFor(c.Value)) : c \in jar }

\* rand.Read not yet called.
NoRand == [err |-> FALSE, b |-> << >>]

\* The steps of GC a goroutine can be at.
NoGC == [gc_lock |-> 0, gc_sweep |-> 0, gc_arm |-> 0, gc_unlock |-> 0]

\* The values of manager.lock: unlocked, or locked by a worker or by a GC.
Unlocked == [by |-> "nobody", worker |-> 0]
W(p) == [by |-> "worker", worker |-> p]
LockedByGC == [by |-> "gc", worker |-> 0]

\* Everything but the registry, the Manager and the record of the calls
\* that made them.
servingVars == << lock, sessions, pc, req, sid, session, resp, calls, got,
                 rnd, jar, gc, timers, gcStarts, served >>

\* What boot holds: the call, its arguments, the registry it found, and
\* whether it panicked or returned an error.
NoBoot == [op |-> "none", name |-> "", provider |-> "nil", cookieName |-> "",
           maxLifeTime |-> 0, before |-> EmptyRegistry, panic |-> FALSE,
           err |-> FALSE]

RegisterCall(registry, name, provider) ==
  [op |-> "Register", name |-> name, provider |-> provider, cookieName |-> "",
   maxLifeTime |-> 0, before |-> registry,
   panic |-> Register(registry, name, provider).panic, err |-> FALSE]

NewManagerCall(registry, provideName, cookieName, maxLifeTime) ==
  [op |-> "NewManager", name |-> provideName, provider |-> "nil",
   cookieName |-> cookieName, maxLifeTime |-> maxLifeTime, before |-> registry,
   panic |-> FALSE,
   err |-> NewManager(registry, provideName, cookieName, maxLifeTime).err]

\* No request in flight, GC not yet started; n requests have come and gone
\* without leaving a session.
Quiet(n) ==
  /\ lock = Unlocked
  /\ sessions = [k \in {} |-> NewStore]
  /\ pc = [p \in Workers |-> "idle"]
  /\ req = [p \in Workers |-> NoCookie]
  /\ sid = [p \in Workers |-> << >>]
  /\ session = [p \in Workers |-> NilSession]
  /\ resp = [p \in Workers |-> << >>]
  /\ calls = [p \in Workers |-> << >>]
  /\ got = [p \in Workers |-> "none"]
  /\ rnd = [p \in Workers |-> NoRand]
  /\ jar = {}
  /\ gc = NoGC
  /\ timers = EmptyBag
  /\ gcStarts = 0
  /\ served = n

\* The state the demo's init leaves: the memory backend registered, the
\* Manager constructed, no request in flight, GC not yet started; n requests
\* have come and gone without leaving a session.
InitAfter(n) ==
  /\ providers = Register(EmptyRegistry, ProviderName, "memoryProvider").providers
  /\ manager = NewManager(providers, ProviderName, CookieName, LifeTime).manager
  /\ boot = NewManagerCall(providers, ProviderName, CookieName, LifeTime)
  /\ Quiet(n)

Init == InitAfter(0)

(***************************************************************************)
(* Start-up: the calls of Register (from the backends' package init) and   *)
(* of NewManager, before any request is served. A panic ends the process.  *)
(***************************************************************************)
\* The names and providers Register is called with, and the cookie names
\* and lifetimes NewManager is called with.
RegNames == { ProviderName, "file", "redis" }
RegProviders == { "nil", "memoryProvider", "fileProvider" }
CookieNames == { CookieName, "sessionid" }
LifeTimes == { LifeTime, LifeTime + 1 }

BootInit ==
  /\ providers = EmptyRegistry
  /\ manager = NilManager
  /\ boot = NoBoot
  /\ Quiet(0)

\* Register(name, provider)
CallRegister ==
  /\ ~ boot.panic
  /\ \E name \in RegNames, provider \in RegProviders :
       /\ providers' = Register(providers, name, provider).providers
       /\ boot' = RegisterCall(providers, name, provider)
  /\ UNCHANGED << manager, servingVars >>

\* globalSessions, _ = NewManager(provideName, cookieName, maxLifeTime)
CallNewManager ==
  /\ ~ boot.panic
  /\ \E provideName \in RegNames, cookieName \in CookieNames,
        maxLifeTime \in LifeTimes :
       /\ manager' = NewManager(providers, provideName, cookieName,
                                maxLifeTime).manager
       /\ boot' = NewManagerCall(providers, provideName, cookieName, maxLifeTime)
  /\ UNCHANGED << providers, servingVars >>

BootNext == CallRegister \/ CallNewManager

BootSpec == BootInit /\ [][BootNext]_vars

(***************************************************************************)
(* Requests arriving at the server.                                        *)
(***************************************************************************)
\* A request whose handler calls SessionStart (the login handler).
ServeLogin(p) ==
  /\ pc[p] = "idle"
  /\ served < MaxRequests
  /\ served' = served + 1
  /\ \E c \in RequestCookies : req' = [req EXCEPT ![p] = c]
  /\ pc' = [pc EXCEPT ![p] = "ss_lock"]
  /\ UNCHANGED << providers, manager, boot, lock, sessions, sid, session, resp,
                  calls, got, rnd, jar, gc, timers, gcStarts >>

\* A request whose handler calls SessionDestroy.
ServeLogout(p) ==
  /\ pc[p] = "idle"
  /\ served < MaxRequests
  /\ served' = served + 1
  /\ \E c \in RequestCookies : req' = [req EXCEPT ![p] = c]
  /\ pc' = [pc EXCEPT ![p] = "sd_cookie"]
  /\ UNCHANGED << providers, manager, boot, lock, sessions, sid, session, resp,
                  calls, got, rnd, jar, gc, timers, gcStarts >>

(***************************************************************************)
(* Manager.SessionStart                                                    *)
(***************************************************************************)
\* The condition of line 76: no cookie, or an empty value.
NeedsNewSession(c) == c.err \/ c.Value = << >>

\* manager.lock.Lock(), then r.Cookie(manager.cookieName) and the branch.
SessionStartLock(p) ==
  /\ pc[p] = "ss_lock"
  /\ lock = Unlocked
  /\ lock' = W(p)
  /\ pc' = [pc EXCEPT ![p] =
              IF NeedsNewSession(req[p]) THEN "ss_init" ELSE "ss_read"]
  /\ UNCHANGED << providers, manager, boot, sessions, req, sid, session, resp,
                  calls, got, rnd, jar, gc, timers, gcStarts, served >>

\* sid := manager.sessionID(); session, err = provider.SessionInit(sid)
SessionStartInit(p) ==
  /\ pc[p] = "ss_init"
  /\ \E r \in RandRead :
       LET id == sessionID(r)
           res == ProviderInit(sessions, id, manager.maxLifeTime)
       IN /\ rnd' = [rnd EXCEPT ![p] = r]
          /\ sid' = [sid EXCEPT ![p] = id]
          /\ sessions' = res.sessions
          /\ session' = [session EXCEPT ![p] = res.session]
          /\ calls' = [calls EXCEPT ![p] =
                         Append(@, [op |-> "init", arg |-> id,
                                    ret |-> res.session, err |-> res.err])]
  /\ pc' = [pc EXCEPT ![p] = "ss_setcookie"]
  /\ UNCHANGED << providers, manager, boot, lock, req, resp, got, jar, gc, timers,
                  gcStarts, served >>

\* The cookie SessionStart issues for sid.
StartCookie(m, id) ==
  [Name |-> m.cookieName, Value |-> QueryEscape(id), Path |-> "/",
   HttpOnly |-> TRUE, MaxAge |-> m.maxLifeTime, Expires |-> "unset"]

\* http.SetCookie(w, &cookie)
SessionStartSetCookie(p) ==
  /\ pc[p] = "ss_setcookie"
  /\ resp' = [resp EXCEPT ![p] = Append(@, StartCookie(manager, sid[p]))]
  /\ jar' = jar \cup { [sid |-> sid[p],
                         Value |-> StartCookie(manager, sid[p]).Value] }
  /\ pc' = [pc EXCEPT ![p] = "ss_unlock"]
  /\ UNCHANGED << providers, manager, boot, lock, sessions, req, sid, session,
                  calls, got, rnd, gc, timers, gcStarts, served >>

\* The identifier SessionStart reads for a cookie value: the error of
\* QueryUnescape is dropped.
ReadID(v) == QueryUnescape(v).str

\* SessionStart creating a session under the identifier of the cookie when
\* the read reports NotFound.
SessionStartRead_InitFromCookie(p) ==
  /\ pc[p] = "ss_read"
  /\ LET id == ReadID(req[p].Value)
         res == ProviderRead(sessions, id, manager.maxLifeTime)
         new == ProviderInit(sessions, id, manager.maxLifeTime)
     IN /\ sid' = [sid EXCEPT ![p] = id]
        /\ sessions' = IF res.err THEN new.sessions ELSE res.sessions
        /\ session' = [session EXCEPT ![p] =
                         IF res.err THEN new.session ELSE res.session]
        /\ calls' = [calls EXCEPT ![p] =
                       Append(@, [op |-> "read", arg |-> id,
                                  ret |-> res.session, err |-> res.err])]
  /\ pc' = [pc EXCEPT ![p] = "ss_unlock"]
  /\ UNCHANGED << providers, manager, boot, lock, req, resp, got, rnd, jar, gc,
                  timers, gcStarts, served >>

\* sid, _ := url.QueryUnescape(cookie.Value)
\* session, _ = manager.provider.SessionRead(sid)
SessionStartRead(p) ==
  /\ pc[p] = "ss_read"
  /\ LET id == ReadID(req[p].Value)
         res == ProviderRead(sessions, id, manager.maxLifeTime)
     IN /\ sid' = [sid EXCEPT ![p] = id]
        /\ sessions' = res.sessions
        /\ session' = [session EXCEPT ![p] = res.session]
        /\ calls' = [calls EXCEPT ![p] =
                       Append(@, [op |-> "read", arg |-> id,
                                  ret |-> res.session, err |-> res.err])]
  /\ pc' = [pc EXCEPT ![p] = "ss_unlock"]
  /\ UNCHANGED << providers, manager, boot, lock, req, resp, got, rnd, jar, gc,
                  timers, gcStarts, served >>

\* SessionStart returning without the deferred Unlock.
SessionStartReturn_NoUnlock(p) ==
  /\ pc[p] = "ss_unlock"
  /\ pc' = [pc EXCEPT ![p] = "ss_done"]
  /\ UNCHANGED << providers, manager, boot, lock, sessions, req, sid, session, resp,
                  calls, got, rnd, jar, gc, timers, gcStarts, served >>

\* return, running the deferred manager.lock.Unlock()
SessionStartReturn(p) ==
  /\ pc[p] = "ss_unlock"
  /\ lock' = Unlocked
  /\ pc' = [pc EXCEPT ![p] = "ss_done"]
  /\ UNCHANGED << providers, manager, boot, sessions, req, sid, session, resp,
                  calls, got, rnd, jar, gc, timers, gcStarts, served >>

(***************************************************************************)
(* The login handler of the demo, after SessionStart has returned sess.    *)
(***************************************************************************)
\* GET: t.Execute(w, sess.Get("username")). A method call on a nil Session
\* is a runtime panic.
LoginGet(p) ==
  /\ pc[p] = "ss_done"
  /\ IF session[p].nil
     THEN /\ pc' = [pc EXCEPT ![p] = "panic"]
          /\ UNCHANGED << sessions, got >>
     ELSE /\ got' = [got EXCEPT ![p] = StoreGet(sessions, session[p], UsernameKey)]
          /\ sessions' = StoreTouch(sessions, session[p])
          /\ pc' = [pc EXCEPT ![p] = "served"]
  /\ UNCHANGED << providers, manager, boot, lock, req, sid, session, resp, calls,
                  rnd, jar, gc, timers, gcStarts, served >>

\* POST with a user name the form validation accepts:
\* sess.Set("username", r.Form["username"][0])
LoginPost(p) ==
  /\ pc[p] = "ss_done"
  /\ IF session[p].nil
     THEN /\ pc' = [pc EXCEPT ![p] = "panic"]
          /\ UNCHANGED sessions
     ELSE /\ sessions' = StoreSet(sessions, session[p], UsernameKey, ValidUsername)
          /\ pc' = [pc EXCEPT ![p] = "served"]
  /\ UNCHANGED << providers, manager, boot, lock, req, sid, session, resp, calls,
                  got, rnd, jar, gc, timers, gcStarts, served >>

\* POST with a user name the form validation rejects: no session call.
LoginReject(p) ==
  /\ pc[p] = "ss_done"
  /\ pc' = [pc EXCEPT ![p] = "served"]
  /\ UNCHANGED << providers, manager, boot, lock, sessions, req, sid, session,
                  resp, calls, got, rnd, jar, gc, timers, gcStarts, served >>

\* The handler has returned (or net/http has recovered its panic): the
\* worker is free for the next request.
Finish(p) ==
  /\ pc[p] \in { "served", "panic", "sd_done" }
  /\ pc' = [pc EXCEPT ![p] = "idle"]
  /\ req' = [req EXCEPT ![p] = NoCookie]
  /\ sid' = [sid EXCEPT ![p] = << >>]
  /\ session' = [session EXCEPT ![p] = NilSession]
  /\ resp' = [resp EXCEPT ![p] = << >>]
  /\ calls' = [calls EXCEPT ![p] = << >>]
  /\ got' = [got EXCEPT ![p] = "none"]
  /\ rnd' = [rnd EXCEPT ![p] = NoRand]
  /\ UNCHANGED << providers, manager, boot, lock, sessions, jar, gc, timers, gcStarts, served >>

(***************************************************************************)
(* Manager.SessionDestroy                                                  *)
(***************************************************************************)
\* SessionDestroy going on to the lock whatever the cookie is.
SessionDestroyCookie_Always(p) ==
  /\ pc[p] = "sd_cookie"
  /\ pc' = [pc EXCEPT ![p] = "sd_lock"]
  /\ UNCHANGED << providers, manager, boot, lock, sessions, req, sid, session,
                  resp, calls, got, rnd, jar, gc, timers, gcStarts, served >>

\* cookie, err := r.Cookie(manager.cookieName); return when there is none
\* or its value is empty.
SessionDestroyCookie(p) ==
  /\ pc[p] = "sd_cookie"
  /\ pc' = [pc EXCEPT ![p] =
              IF NeedsNewSession(req[p]) THEN "sd_done" ELSE "sd_lock"]
  /\ UNCHANGED << providers, manager, boot, lock, sessions, req, sid, session,
                  resp, calls, got, rnd, jar, gc, timers, gcStarts, served >>

\* SessionDestroy going on without waiting for the lock to be free.
SessionDestroyLock_NoWait(p) ==
  /\ pc[p] = "sd_lock"
  /\ lock' = W(p)
  /\ pc' = [pc EXCEPT ![p] = "sd_destroy"]
  /\ UNCHANGED << providers, manager, boot, sessions, req, sid, session, resp,
                  calls, got, rnd, jar, gc, timers, gcStarts, served >>

\* manager.lock.Lock()
SessionDestroyLock(p) ==
  /\ pc[p] = "sd_lock"
  /\ lock = Unlocked
  /\ lock' = W(p)
  /\ pc' = [pc EXCEPT ![p] = "sd_destroy"]
  /\ UNCHANGED << providers, manager, boot, sessions, req, sid, session, resp,
                  calls, got, rnd, jar, gc, timers, gcStarts, served >>

\* The identifier SessionDestroy hands the provider for a cookie value: the
\* value as it stands.
DestroyID(v) == v

\* manager.provider.SessionDestroy(cookie.Value)
SessionDestroyProvider(p) ==
  /\ pc[p] = "sd_destroy"
  /\ LET id == DestroyID(req[p].Value)
         res == ProviderDestroy(sessions, id)
     IN /\ sessions' = res.sessions
        /\ calls' = [calls EXCEPT ![p] =
                       Append(@, [op |-> "destroy", arg |-> id,
                                  ret |-> NilSession, err |-> res.err])]
  /\ pc' = [pc EXCEPT ![p] = "sd_setcookie"]
  /\ UNCHANGED << providers, manager, boot, lock, req, sid, session, resp, got, rnd, jar,
                  gc, timers, gcStarts, served >>

\* The cookie SessionDestroy sets: Expires is time.Now(), MaxAge -1.
DestroyCookie(m) ==
  [Name |-> m.cookieName, Value |-> << >>, Path |-> "/", HttpOnly |-> TRUE,
   MaxAge |-> -1, Expires |-> "now"]

\* SessionDestroy setting the cookie only when destroy found the session.
SessionDestroySetCookie_IfFound(p) ==
  /\ pc[p] = "sd_setcookie"
  /\ resp' = [resp EXCEPT ![p] =
                IF calls[p][Len(calls[p])].err THEN @
                ELSE Append(@, DestroyCookie(manager))]
  /\ pc' = [pc EXCEPT ![p] = "sd_unlock"]
  /\ UNCHANGED << providers, manager, boot, lock, sessions, req, sid, session,
                  calls, got, rnd, jar, gc, timers, gcStarts, served >>

\* http.SetCookie(w, &cookie)
SessionDestroySetCookie(p) ==
  /\ pc[p] = "sd_setcookie"
  /\ resp' = [resp EXCEPT ![p] = Append(@, DestroyCookie(manager))]
  /\ pc' = [pc EXCEPT ![p] = "sd_unlock"]
  /\ UNCHANGED << providers, manager, boot, lock, sessions, req, sid, session,
                  calls, got, rnd, jar, gc, timers, gcStarts, served >>

\* return, running the deferred manager.lock.Unlock()
SessionDestroyReturn(p) ==
  /\ pc[p] = "sd_unlock"
  /\ lock' = Unlocked
  /\ pc' = [pc EXCEPT ![p] = "sd_done"]
  /\ UNCHANGED << providers, manager, boot, sessions, req, sid, session, resp,
                  calls, got, rnd, jar, gc, timers, gcStarts, served >>

(***************************************************************************)
(* Manager.GC                                                              *)
(*                                                                         *)
(* Goroutines running GC are anonymous: gc counts them by where they are,  *)
(* and timers is the bag of the timers time.AfterFunc has armed.           *)
(***************************************************************************)
\* go globalSessions.GC(): a call of GC from outside the Manager.
StartGC ==
  /\ gcStarts < MaxGCStarts
  /\ gc' = [gc EXCEPT !.gc_lock = @ + 1]
  /\ gcStarts' = gcStarts + 1
  /\ UNCHANGED << providers, manager, boot, lock, sessions, timers, workerVars, served >>

\* GC going on without waiting for the lock to be free.
GCLock_NoWait ==
  /\ gc.gc_lock > 0
  /\ lock' = LockedByGC
  /\ gc' = [gc EXCEPT !.gc_lock = @ - 1, !.gc_sweep = @ + 1]
  /\ UNCHANGED << providers, manager, boot, sessions, timers, workerVars, gcStarts, served >>

\* manager.lock.Lock()
GCLock ==
  /\ gc.gc_lock > 0
  /\ lock = Unlocked
  /\ lock' = LockedByGC
  /\ gc' = [gc EXCEPT !.gc_lock = @ - 1, !.gc_sweep = @ + 1]
  /\ UNCHANGED << providers, manager, boot, sessions, timers, workerVars, gcStarts, served >>

\* GC sweeping with a threshold of its own, zero, instead of the Manager's.
GCSweep_ZeroThreshold ==
  /\ gc.gc_sweep > 0
  /\ sessions' = ProviderGC(sessions, 0)
  /\ gc' = [gc EXCEPT !.gc_sweep = @ - 1, !.gc_arm = @ + 1]
  /\ UNCHANGED << providers, manager, boot, lock, timers, workerVars, gcStarts, served >>

\* manager.provider.SessionGC(manager.maxLifeTime)
GCSweep ==
  /\ gc.gc_sweep > 0
  /\ sessions' = ProviderGC(sessions, manager.maxLifeTime)
  /\ gc' = [gc EXCEPT !.gc_sweep = @ - 1, !.gc_arm = @ + 1]
  /\ UNCHANGED << providers, manager, boot, lock, timers, workerVars, gcStarts, served >>

\* time.Duration(manager.maxLifeTime): a Duration counts nanoseconds, and
\* the conversion keeps the number.
TimerDelay(m) == m.maxLifeTime

\* GC arming two timers instead of one.
GCArm_Twice ==
  /\ gc.gc_arm > 0
  /\ timers' = timers (+) SetToBag({ [delay |-> TimerDelay(manager), elapsed |-> 0] })
                      (+) SetToBag({ [delay |-> TimerDelay(manager), elapsed |-> 0] })
  /\ gc' = [gc EXCEPT !.gc_arm = @ - 1, !.gc_unlock = @ + 1]
  /\ UNCHANGED << providers, manager, boot, lock, sessions, workerVars, gcStarts, served >>

\* time.AfterFunc(time.Duration(manager.maxLifeTime), func() { manager.GC() })
GCArm ==
  /\ gc.gc_arm > 0
  /\ timers' = timers (+) SetToBag({ [delay |-> TimerDelay(manager), elapsed |-> 0] })
  /\ gc' = [gc EXCEPT !.gc_arm = @ - 1, !.gc_unlock = @ + 1]
  /\ UNCHANGED << providers, manager, boot, lock, sessions, workerVars, gcStarts, served >>

\* GC returning without the deferred Unlock.
GCReturn_NoUnlock ==
  /\ gc.gc_unlock > 0
  /\ gc' = [gc EXCEPT !.gc_unlock = @ - 1]
  /\ UNCHANGED << providers, manager, boot, lock, sessions, timers, workerVars,
                  gcStarts, served >>

\* return, running the deferred manager.lock.Unlock()
GCReturn ==
  /\ gc.gc_unlock > 0
  /\ lock' = Unlocked
  /\ gc' = [gc EXCEPT !.gc_unlock = @ - 1]
  /\ UNCHANGED << providers, manager, boot, sessions, timers, workerVars, gcStarts, served >>

\* A timer has run its delay: its goroutine calls manager.GC().
TimerFire ==
  /\ \E t \in BagToSet(timers) :
       /\ t.elapsed >= t.delay
       /\ timers' = timers (-) SetToBag({t})
  /\ gc' = [gc EXCEPT !.gc_lock = @ + 1]
  /\ UNCHANGED << providers, manager, boot, lock, sessions, workerVars, gcStarts, served >>

(***************************************************************************)
(* Time.                                                                   *)
(***************************************************************************)
TimerWaiting == \E t \in BagToSet(timers) : t.elapsed < t.delay

Elapse(t, ns) == [t EXCEPT !.elapsed = Min(t.delay, t.elapsed + ns)]

ElapseNano(t) == Elapse(t, 1)
ElapseSecond(t) == Elapse(t, Second)

\* A nanosecond passes.
TickNano ==
  /\ TimerWaiting
  /\ timers' = BagOfAll(ElapseNano, timers)
  /\ UNCHANGED << providers, manager, boot, lock, sessions, gc, workerVars, gcStarts, served >>

\* A second passes: every store is a second older.
TickSecond ==
  /\ \/ TimerWaiting
     \/ \E id \in DOMAIN sessions : ~ Expired(sessions[id], manager.maxLifeTime)
  /\ timers' = BagOfAll(ElapseSecond, timers)
  /\ sessions' = [id \in DOMAIN sessions |->
                    [sessions[id] EXCEPT
                       !.age = Min(manager.maxLifeTime + 1, @ + 1)]]
  /\ UNCHANGED << providers, manager, boot, lock, gc, workerVars, gcStarts, served >>

(***************************************************************************)
(* The specification.                                                      *)
(***************************************************************************)
Next ==
  \/ \E p \in Workers : ServeLogin(p)
  \/ \E p \in Workers : ServeLogout(p)
  \/ \E p \in Workers : SessionStartLock(p)
  \/ \E p \in Workers : SessionStartInit(p)
  \/ \E p \in Workers : SessionStartSetCookie(p)
  \/ \E p \in Workers : SessionStartRead(p)
  \/ \E p \in Workers : SessionStartReturn(p)
  \/ \E p \in Workers : LoginGet(p)
  \/ \E p \in Workers : LoginPost(p)
  \/ \E p \in Workers : LoginReject(p)
  \/ \E p \in Workers : Finish(p)
  \/ \E p \in Workers : SessionDestroyCookie(p)
  \/ \E p \in Workers : SessionDestroyLock(p)
  \/ \E p \in Workers : SessionDestroyProvider(p)
  \/ \E p \in Workers : SessionDestroySetCookie(p)
  \/ \E p \in Workers : SessionDestroyReturn(p)
  \/ StartGC
  \/ GCLock
  \/ GCSweep
  \/ GCArm
  \/ GCReturn
  \/ TimerFire
  \/ TickNano
  \/ TickSecond

Spec == Init /\ [][Next]_vars

(***************************************************************************)
(* The specification with the fairness the scheduling gives: the goroutine *)
(* holding the lock runs on, time passes, a due timer fires, and a         *)
(* goroutine waiting in Lock is not passed over forever (sync.Mutex hands  *)
(* the lock to a waiter that has waited too long).                         *)
(***************************************************************************)
LockedStep(p) ==
  \/ SessionStartInit(p)
  \/ SessionStartSetCookie(p)
  \/ SessionStartRead(p)
  \/ SessionStartReturn(p)
  \/ SessionDestroyProvider(p)
  \/ SessionDestroySetCookie(p)
  \/ SessionDestroyReturn(p)

\* A run checked for liveness starts when all but LiveRequests of the
\* requests have been answered, by SessionDestroy calls that found no cookie.
LiveInit == InitAfter(MaxRequests - LiveRequests)

LiveSpec ==
  /\ LiveInit
  /\ [][Next]_vars
  /\ WF_vars(\E p \in Workers : LockedStep(p))
  /\ SF_vars(GCLock)
  /\ WF_vars(GCSweep \/ GCArm \/ GCReturn)
  /\ WF_vars(TimerFire)
  /\ WF_vars(TickNano)

\* The same, with a request goroutine waiting in Lock not passed over
\* forever either, and a SessionDestroy that has been called running on.
FairSpec ==
  /\ LiveSpec
  /\ \A p \in Workers :
       /\ SF_vars(SessionStartLock(p))
       /\ SF_vars(SessionDestroyLock(p))
       /\ WF_vars(SessionDestroyCookie(p))

(***************************************************************************)
(* Properties.                                                             *)
(***************************************************************************)
\* Where a worker is while SessionStart or SessionDestroy holds the lock.
StartLocked == { "ss_init", "ss_read", "ss_setcookie", "ss_unlock" }
DestroyLocked == { "sd_destroy", "sd_setcookie", "sd_unlock" }

\* The worker is in a Provider operation.
InProvider(p) == pc[p] \in { "ss_init", "ss_read", "sd_destroy" }

\* Where a worker is once SessionStart has set its cookie or has returned.
StartIssued == { "ss_unlock", "ss_done", "served", "panic" }

\* C1: once SessionDestroy, called with a cookie value that SessionStart
\* issued for an identifier, has had the Provider destroy, the Provider no
\* longer holds a session under that identifier, and the identifier it
\* handed to destroy is the one SessionStart reads for that value.
C1_DestroyRemovesSession ==
  \A p \in Workers :
    pc[p] \in { "sd_setcookie", "sd_unlock" } =>
      \A id \in req[p].sids :
        /\ id \notin DOMAIN sessions
        /\ calls[p][1].arg = ReadID(req[p].Value)
        /\ calls[p][1].arg = id

\* C2: a SessionStart for a request with no cookie or an empty one has, when
\* it returns, called init exactly once with the identifier it generated,
\* called nothing else, set exactly one cookie (cookieName, the escaped
\* non-empty identifier, Path /, HttpOnly, MaxAge the constructed
\* maxLifeTime) and returns the handle init returned.
C2_StartWithoutCookie ==
  \A p \in Workers :
    (pc[p] = "ss_done" /\ NeedsNewSession(req[p])) =>
      /\ Len(calls[p]) = 1
      /\ calls[p][1].op = "init"
      /\ calls[p][1].arg = sid[p]
      /\ session[p] = calls[p][1].ret
      /\ Len(resp[p]) = 1
      /\ resp[p][1] = [Name |-> CookieName, Value |-> QueryEscape(sid[p]),
                       Path |-> "/", HttpOnly |-> TRUE, MaxAge |-> LifeTime,
                       Expires |-> "unset"]
      /\ resp[p][1].Value # << >>

\* C3: a SessionStart carrying a cookie value that an earlier SessionStart
\* issued for identifier id calls read with exactly id, calls nothing else
\* and sets no cookie.
C3_CookieReuse ==
  \A p \in Workers :
    pc[p] \in { "ss_unlock", "ss_done" } =>
      \A id \in req[p].sids :
        /\ Len(calls[p]) = 1
        /\ calls[p][1].op = "read"
        /\ calls[p][1].arg = id
        /\ resp[p] = << >>

\* C4: a SessionStart whose cookie is present and non-empty and whose read
\* reports NotFound does not return a nil handle. (SessionStart returns the
\* Session alone, so a NotFound it does not turn into a fresh session cannot
\* reach the caller.)
C4_NotFoundPolicy ==
  \A p \in Workers :
    (/\ pc[p] = "ss_done"
     /\ ~ NeedsNewSession(req[p])
     /\ \E i \in 1..Len(calls[p]) : calls[p][i].op = "read" /\ calls[p][i].err)
    => ~ session[p].nil

\* C5: at most one goroutine is in a Provider operation, and a worker past
\* Lock in SessionStart or SessionDestroy, or a GC at its sweep, holds the
\* lock.
C5_MutualExclusion ==
  /\ Cardinality({ p \in Workers : InProvider(p) }) + gc.gc_sweep <= 1
  /\ \A p \in Workers : pc[p] \in StartLocked \cup DestroyLocked => lock = W(p)
  /\ gc.gc_sweep > 0 => lock = LockedByGC

\* A worker is in a Provider operation while another worker and a GC wait
\* for the lock.
C5_Witness ==
  \E p, q \in Workers :
    /\ p # q
    /\ InProvider(p)
    /\ pc[q] \in { "ss_lock", "sd_lock" }
    /\ gc.gc_lock > 0

\* The workers whose SessionStart took the no-cookie branch and is past init.
StartedNew == { p \in Workers : /\ pc[p] \in StartIssued \cup { "ss_setcookie" }
                                /\ NeedsNewSession(req[p]) }

\* The SessionStart calls without a cookie are all the calls there have
\* been, and the random source gave each a block different from the others'.
DistinctDraws ==
  /\ served = Cardinality(StartedNew)
  /\ \A p \in StartedNew : ~ rnd[p].err
  /\ \A p, q \in StartedNew : p # q => rnd[p].b # rnd[q].b

\* C6: when K SessionStart calls without a cookie run at once and the random
\* source yields distinct values, each has initialised and got a session of
\* its own identifier, the identifiers and cookie values differ, the
\* Provider holds no session but theirs (exactly K while none has expired),
\* and each issued cookie value reads back the session created for it.
C6_ConcurrentStart ==
  DistinctDraws =>
    /\ \A p \in StartedNew :
         /\ session[p] = SessionRef(sid[p])
         /\ Len(calls[p]) = 1
         /\ calls[p][1].op = "init"
         /\ calls[p][1].arg = sid[p]
    /\ \A p, q \in StartedNew : p # q => sid[p] # sid[q]
    /\ DOMAIN sessions \subseteq { sid[p] : p \in StartedNew }
    /\ \A p \in StartedNew : pc[p] \in StartLocked => sid[p] \in DOMAIN sessions
    /\ (\A p \in StartedNew : sid[p] \in DOMAIN sessions)
         => Cardinality(DOMAIN sessions) = Cardinality(StartedNew)
    /\ \A p \in StartedNew :
         pc[p] \in StartIssued =>
           /\ Len(resp[p]) = 1
           /\ \A q \in StartedNew : p # q /\ pc[q] \in StartIssued
                => resp[p][1].Value # resp[q][1].Value
           /\ Live(sessions, sid[p], manager.maxLifeTime) =>
                ProviderRead(sessions, ReadID(resp[p][1].Value),
                             manager.maxLifeTime).session = session[p]

\* Two SessionStart calls without a cookie have both returned, with
\* different draws, and both sessions are live.
C6_Witness ==
  /\ DistinctDraws
  /\ Cardinality(StartedNew) = 2
  /\ \A p \in StartedNew :
       pc[p] = "ss_done" /\ Live(sessions, sid[p], manager.maxLifeTime)

\* C7: SessionStart never calls init with an empty identifier and never
\* issues a cookie whose value is empty.
C7_NoEmptyIdentifier ==
  \A p \in Workers :
    /\ \A i \in 1..Len(calls[p]) :
         calls[p][i].op = "init" => calls[p][i].arg # << >>
    /\ pc[p] \in StartIssued =>
         \A i \in 1..Len(resp[p]) : resp[p][i].Value # << >>

\* C8: at most one GC invocation is between its Lock and its return, so no
\* two sweeps are in progress at once and an invocation started by a timer
\* does not sweep before the invocation that armed the timer has returned.
C8_GCNoOverlap ==
  /\ gc.gc_sweep + gc.gc_arm + gc.gc_unlock <= 1
  /\ gc.gc_sweep + gc.gc_arm + gc.gc_unlock = 1 => lock = LockedByGC

\* The timer has fired and its invocation waits in Lock while the invocation
\* that armed it has not yet returned.
C8_Witness == gc.gc_unlock = 1 /\ gc.gc_lock = 1

\* C9: every timer GC arms has a delay of maxLifeTime seconds.
C9_GCPeriod ==
  \A t \in BagToSet(timers) : t.delay = manager.maxLifeTime * Second

\* C10: once GC has been called, a Provider sweep is completed again and
\* again, forever.
C10_GCForever == (gcStarts > 0) ~> (gc.gc_arm > 0)

\* The invocation a timer started waits in Lock, together with a request
\* worker, while the invocation that armed the timer still holds the lock.
C10_Witness ==
  /\ gc.gc_lock = 1
  /\ gc.gc_unlock = 1
  /\ lock = LockedByGC
  /\ \E p \in Workers : pc[p] \in { "ss_lock", "sd_lock" }

\* What a Register call does to the registry: with a nil provider or a name
\* already bound it panics and the registry is as it was; otherwise the
\* registry is as it was plus the one binding name -> provider.
RegisterContract ==
  boot.op = "Register" =>
    IF boot.provider = "nil" \/ boot.name \in DOMAIN boot.before
    THEN boot.panic /\ providers = boot.before
    ELSE /\ ~ boot.panic
         /\ DOMAIN providers = DOMAIN boot.before \cup { boot.name }
         /\ providers[boot.name] = boot.provider
         /\ \A n \in DOMAIN boot.before : providers[n] = boot.before[n]

\* A step never removes or rebinds a name of the registry.
BindingsKept ==
  \A n \in DOMAIN providers :
    n \in DOMAIN providers' /\ providers'[n] = providers[n]

\* C11: every Register call with a nil provider or a registered name panics
\* and leaves the registry unchanged, every other call adds exactly its
\* binding, and a binding once made is never overwritten or removed.
C11_Register == [] RegisterContract /\ [][BindingsKept]_vars

\* Register has panicked on a name already bound, with two names bound.
C11_Witness ==
  /\ boot.op = "Register"
  /\ boot.panic
  /\ boot.provider # "nil"
  /\ boot.name \in DOMAIN providers
  /\ Cardinality(DOMAIN providers) = 2

\* C12: NewManager returns an error and no Manager, without panicking,
\* exactly when the name is not registered; otherwise no error and a Manager
\* bound to the provider under that name, with the cookie name and lifetime
\* given; the registry is as it was.
C12_NewManager ==
  boot.op = "NewManager" =>
    /\ ~ boot.panic
    /\ providers = boot.before
    /\ boot.err <=> boot.name \notin DOMAIN providers
    /\ boot.err => manager = NilManager
    /\ ~ boot.err =>
         /\ ~ manager.nil
         /\ manager.provider = providers[boot.name]
         /\ manager.provider # "nil"
         /\ manager.cookieName = boot.cookieName
         /\ manager.maxLifeTime = boot.maxLifeTime

\* NewManager has failed on an unknown name while another name is bound.
C12_Witness ==
  /\ boot.op = "NewManager"
  /\ boot.err
  /\ manager.nil
  /\ DOMAIN providers # {}

\* C13: a SessionDestroy for a request with a present, non-empty cookie
\* sets nothing before the Provider's destroy has returned, and once it has
\* set its cookie, and when it has returned, the response carries exactly
\* one cookie: cookieName, Path /, HttpOnly, MaxAge -1 and an expiry of the
\* instant before the cookie was set; so also when destroy reported
\* NotFound.
C13_DestroyCookie ==
  \A p \in Workers :
    /\ pc[p] \in { "sd_lock", "sd_destroy" } =>
         calls[p] = << >> /\ resp[p] = << >>
    /\ pc[p] = "sd_setcookie" =>
         /\ Len(calls[p]) = 1
         /\ calls[p][1].op = "destroy"
         /\ resp[p] = << >>
    /\ (pc[p] = "sd_unlock" \/ (pc[p] = "sd_done" /\ ~ NeedsNewSession(req[p]))) =>
         /\ Len(calls[p]) = 1
         /\ calls[p][1].op = "destroy"
         /\ resp[p] = << [Name |-> CookieName, Value |-> << >>, Path |-> "/",
                          HttpOnly |-> TRUE, MaxAge |-> -1, Expires |-> "now"] >>

\* SessionDestroy has returned after the Provider reported NotFound.
C13_Witness ==
  \E p \in Workers :
    /\ pc[p] = "sd_done"
    /\ Len(calls[p]) = 1
    /\ calls[p][1].err
    /\ Len(resp[p]) = 1

\* The step SessionDestroy takes on a request with no cookie or an empty
\* one: it returns at once, without the lock, a Provider call or a cookie.
DestroyNoOp(p) ==
  (pc[p] = "sd_cookie" /\ NeedsNewSession(req[p]) /\ pc'[p] # pc[p]) =>
    /\ pc'[p] = "sd_done"
    /\ lock # W(p)
    /\ lock' = lock
    /\ sessions' = sessions
    /\ calls[p] = << >> /\ calls'[p] = << >>
    /\ resp[p] = << >> /\ resp'[p] = << >>

\* C14: SessionDestroy on a request with no cookie, or an empty one, makes
\* no Provider call, sets no cookie, does not acquire the lock and leaves
\* the Provider's sessions and their values as they were.
C14_DestroyNoOp == [][\A p \in Workers : DestroyNoOp(p)]_vars

\* SessionDestroy has returned on an empty cookie while the Provider holds a
\* session and another goroutine holds the lock.
C14_Witness ==
  \E p \in Workers :
    /\ pc[p] = "sd_done"
    /\ ~ req[p].err
    /\ req[p].Value = << >>
    /\ calls[p] = << >>
    /\ DOMAIN sessions # {}
    /\ lock # Unlocked

\* The steps in which the Manager calls the Provider.
InitStep(p) == pc[p] = "ss_init" /\ pc'[p] = "ss_setcookie"
ReadStep(p) == pc[p] = "ss_read" /\ pc'[p] = "ss_unlock"
DestroyStep(p) == pc[p] = "sd_destroy" /\ pc'[p] = "sd_setcookie"
SweepStep == gc.gc_sweep > 0 /\ gc'.gc_sweep = gc.gc_sweep - 1

\* What a step may do to one identifier: it comes to be held by the Provider
\* only in an init SessionStart makes with it, and ceases to be held only in
\* a destroy SessionDestroy makes with it or in a GC sweep, when expired.
IdentifierStep(id) ==
  /\ (id \notin DOMAIN sessions /\ id \in DOMAIN sessions') =>
       \E p \in Workers :
         /\ InitStep(p)
         /\ calls'[p][Len(calls'[p])].op = "init"
         /\ calls'[p][Len(calls'[p])].arg = id
  /\ (id \in DOMAIN sessions /\ id \notin DOMAIN sessions') =>
       \/ \E p \in Workers :
            /\ DestroyStep(p)
            /\ calls'[p][Len(calls'[p])].op = "destroy"
            /\ calls'[p][Len(calls'[p])].arg = id
       \/ SweepStep /\ Expired(sessions[id], manager.maxLifeTime)

\* C15: an identifier becomes held by the Provider only through init in
\* SessionStart, stays held on read, and ceases to be held only through
\* destroy in SessionDestroy or a GC sweep; and the identifier SessionStart
\* passes to init is the one its own sessionID call generated.
C15_IdentifierStates ==
  [][/\ \A id \in DOMAIN sessions \cup DOMAIN sessions' : IdentifierStep(id)
     /\ \A p \in Workers :
          /\ ReadStep(p) => DOMAIN sessions' = DOMAIN sessions
          /\ InitStep(p) =>
               /\ sid'[p] = sessionID(rnd'[p])
               /\ calls'[p][Len(calls'[p])].arg = sid'[p]]_vars

\* A session that was issued to a client has been removed, a sweep having
\* just run, and another session is held.
C15_Witness ==
  /\ gc.gc_arm > 0
  /\ \E c \in jar : c.sid \notin DOMAIN sessions
  /\ DOMAIN sessions # {}

\* C16: no request to the login handler ends in a runtime panic when the
\* handler uses the Session that SessionStart returned.
C16_HandlerNeverPanics == \A p \in Workers : pc[p] # "panic"

\* C17: when SessionStart has set a cookie, the Session it returns is not
\* nil and its identifier is the unescaped cookie value; and when init has
\* failed, no cookie has been set.
C17_CookieMeansSession ==
  \A p \in Workers :
    (pc[p] \in StartIssued /\ NeedsNewSession(req[p])) =>
      /\ resp[p] # << >> =>
           /\ ~ session[p].nil
           /\ session[p].sid = ReadID(resp[p][1].Value)
      /\ (\E i \in 1..Len(calls[p]) : calls[p][i].op = "init" /\ calls[p][i].err)
           => resp[p] = << >>

\* The Manager is as NewManager made it, and every cookie SessionStart has
\* set carries as MaxAge the lifetime NewManager was given.
ManagerAsConstructed ==
  /\ boot.op = "NewManager"
  /\ ~ manager.nil
  /\ manager.cookieName = boot.cookieName
  /\ manager.maxLifeTime = boot.maxLifeTime
  /\ manager.provider = providers[boot.name]
  /\ \A p \in Workers :
       \A i \in 1..Len(resp[p]) :
         resp[p][i].Expires = "unset" =>
           /\ resp[p][i].MaxAge = boot.maxLifeTime
           /\ resp[p][i].Name = boot.cookieName

\* A step leaves the Manager's fields alone, and a sweep removes what the
\* Provider's gc removes for the lifetime NewManager was given.
ManagerFixedStep ==
  /\ manager' = manager
  /\ boot' = boot
  /\ SweepStep => sessions' = ProviderGC(sessions, boot.maxLifeTime)

\* C18: cookieName, maxLifeTime and the bound Provider never change after
\* NewManager has returned; the threshold of every sweep and the MaxAge of
\* every cookie SessionStart issues are the lifetime given at construction.
C18_ManagerImmutable == [] ManagerAsConstructed /\ [][ManagerFixedStep]_vars

\* A sweep has just removed an issued session while a SessionStart has set
\* a cookie on its response.
C18_Witness ==
  /\ gc.gc_arm > 0
  /\ \E c \in jar : c.sid \notin DOMAIN sessions
  /\ \E p \in Workers : pc[p] \in StartIssued /\ resp[p] # << >>

\* The GC invocations that have yet to arm their follow-up timer: waiting in
\* Lock, sweeping, or about to arm.
GCBeforeArm == gc.gc_lock + gc.gc_sweep + gc.gc_arm

\* The GC invocations that have armed their timer and have yet to return.
GCAfterArm == gc.gc_unlock

\* C19 as stated: the GC invocations pending on a timer, waiting for the
\* lock or running are as many as the calls of GC() from outside.
C19_GCChainExact ==
  BagCardinality(timers) + GCBeforeArm + GCAfterArm = gcStarts

\* C19: the timers pending and the GC invocations that have yet to arm
\* their timer are together as many as the calls of GC() from outside; an
\* invocation that has armed its timer and has yet to return comes on top,
\* and there is at most one such.
C19_GCChain ==
  /\ BagCardinality(timers) + GCBeforeArm = gcStarts
  /\ GCAfterArm <= 1
  /\ BagCardinality(timers) + GCBeforeArm + GCAfterArm <= gcStarts + 1

\* An invocation has armed its timer and has not yet returned: it and the
\* timer it armed are two where GC() was called once.
C19_Witness ==
  /\ gcStarts = 1
  /\ GCAfterArm = 1
  /\ BagCardinality(timers) = 1

\* A goroutine that is not between Lock and return does not hold the lock.
LockDiscipline ==
  /\ \A p \in Workers :
       pc[p] \notin StartLocked \cup DestroyLocked => lock # W(p)
  /\ gc.gc_sweep + gc.gc_arm + gc.gc_unlock = 0 => lock # LockedByGC

\* C20: the lock is released on every return and not acquired by its
\* holder, and every SessionStart and SessionDestroy call that has been made
\* returns, while the GC chain keeps running.
C20_DeadlockFree ==
  /\ [] LockDiscipline
  /\ \A p \in Workers :
       (pc[p] \in { "ss_lock", "sd_cookie" }) ~> (pc[p] \in { "ss_done", "sd_done" })

\* A SessionStart waits in Lock while a GC sweep holds the lock.
C20_Witness ==
  \E p \in Workers :
    /\ pc[p] = "ss_lock"
    /\ lock = LockedByGC
    /\ gc.gc_sweep = 1

====
